---- MODULE Spec2Model ----
(***************************************************************************)
(* Polyglot TTS client (src/main.py): one job lifecycle per script run.    *)
(*   submit_job  ->  poll_for_completion  ->  download_result              *)
(* The clock is in whole seconds.  The remote API is the environment: it   *)
(* picks the outcome of every HTTP request.  Status bodies are JSON        *)
(* objects, as the status endpoint's interface states; a body that is not  *)
(* an object is outside this model.                                        *)
(***************************************************************************)
EXTENDS Integers, Sequences, FiniteSets, TLC

VARIABLES
    pc,                     \* position of the script run
    language,               \* selectbox label, a sequence of characters
    text_length,            \* len(text_input)
    now,                    \* time.time(), seconds since the run started
    job_data,               \* local of submit_job: the parsed submission response
    job,                    \* (job_id, status_url) returned by submit_job
    dynamic_poll_interval,  \* local of poll_for_completion
    start_time,             \* local of poll_for_completion
    elapsed_time,           \* local of poll_for_completion
    data,                   \* parsed body of the last status response that parsed
    current_status,         \* data.get("status")
    outcome,                \* outcome of the most recent status request
    poll_exit,              \* how poll_for_completion was left
    requests,               \* HTTP requests issued so far, per endpoint
    responses,              \* status responses received so far, per kind
    events,                 \* status_placeholder calls so far, per level, and the last one
    sleeps,                 \* time.sleep calls so far and the last duration
    slow,                   \* status requests that took time so far
    error,                  \* the exception caught at the end of the run
    file,                   \* size of <job_id>.wav on disk, Absent when there is none
    chunks,                 \* chunks written by download_result
    artifact,               \* path returned by download_result
    page,                   \* widgets rendered outside the status placeholder
    sessions,               \* concurrent script runs: the locals of each
    disk,                   \* the working directory the concurrent runs share
    clock                   \* time.time() as the concurrent runs read it

\* the state of one script run
single == <<pc, language, text_length, now, job_data, job, dynamic_poll_interval,
            start_time, elapsed_time, data, current_status, outcome, poll_exit,
            requests, responses, events, sleeps, slow, error, file, chunks, artifact,
            page>>

\* the state of several script runs side by side
concurrent == <<sessions, disk, clock>>

vars == <<single, concurrent>>

(***************************************************************************)
(* Program constants                                                       *)
(***************************************************************************)
MAX_WAIT_SECONDS == 5400

chunk_size == 8192

(***************************************************************************)
(* Bounds of the model                                                     *)
(***************************************************************************)
\* Longest text of the interval-policy specification.
MaxTextLength == 501

\* Most chunks one result stream delivers.
MaxChunks == 2

\* Most status requests of one of the runs side by side.
MaxSessionPolls == 1

\* Most chunks of one result of the runs side by side.
MaxSessionChunks == 1

\* Most advances of the clock the runs side by side see.
MaxTicks == 1

\* Most status requests of one run that take time to answer.
MaxSlowCalls == 1

\* Transient status responses are transport failures and "processing"; the
\* kind that is rarer in a run occurs at most this often.
MaxMinority == 2

(***************************************************************************)
(* Values                                                                  *)
(***************************************************************************)
NoneValue == "<None>"

Absent == -1

NoJob == [job_id |-> NoneValue, status_url |-> NoneValue]

NoError == [kind |-> "none"]

NoData == [undefined |-> TRUE]

EmptyObject == [k \in {} |-> NoneValue]

\* dict.get(key): the value, None when the key is absent
Get(d, key) == IF key \in DOMAIN d THEN d[key] ELSE NoneValue

\* a test for None alone (`is not None`)
TruthyNotNone(v) == v # NoneValue

\* Python truthiness of a str-or-None value
Truthy(v) == v \notin {NoneValue, ""}

EnglishLabel == <<"E","n","g","l","i","s","h"," ","(","e","n",")">>

HindiLabel == <<"H","i","n","d","i"," ","(","h","i",")">>

TeluguLabel == <<"T","e","l","u","g","u"," ","(","t","e",")">>

TamilLabel == <<"T","a","m","i","l"," ","(","t","a",")">>

OtherLabel == <<"O","t","h","e","r">>

\* options of the language selectbox
Languages == {EnglishLabel, HindiLabel, TeluguLabel, TamilLabel, OtherLabel}

English == <<"E","n","g","l","i","s","h">>

\* Python's `sub in s` on strings
Contains(sub, s) ==
    \E i \in 0..(Len(s) - Len(sub)) : SubSeq(s, i + 1, i + Len(sub)) = sub

\* one file name for every job
OutputFilenameFixed(job_id) == <<"output", ".wav">>

\* f"{job_id}.wav"
OutputFilename(job_id) == <<job_id, ".wav">>

JobId == "job-1"

StatusUrl == "/polyglot-tts/status/job-1"

\* JSON objects the submission endpoint can answer with: each of the two
\* fields is absent, empty or set
SubmitBodies ==
    {b \in UNION {[D -> {"", JobId, StatusUrl}] : D \in SUBSET {"job_id", "status_url"}} :
        /\ "job_id" \in DOMAIN b => b["job_id"] \in {"", JobId}
        /\ "status_url" \in DOMAIN b => b["status_url"] \in {"", StatusUrl}}

\* JSON objects the status endpoint can answer with
StatusBodies ==
    {[status |-> "processing"], [status |-> "complete"],
     [status |-> "pending-review"], EmptyObject}

\* forms the lifecycle specification submits
FormLanguages == {EnglishLabel, HindiLabel}

TextLengths == {0, 99, 499, 500}

(***************************************************************************)
(* poll_for_completion: the interval policy (lines 50-62)                  *)
(***************************************************************************)
\* the policy with the 500 boundary on the wrong side for English
PollIntervalInclusive(lang, len) ==
    IF Contains(English, lang)
    THEN IF len <= 500 THEN 10 ELSE 30
    ELSE IF len < 100 THEN 20
         ELSE IF len < 500 THEN 30
         ELSE 45

PollInterval(lang, len) ==
    IF Contains(English, lang)
    THEN IF len < 500 THEN 10 ELSE 30
    ELSE IF len < 100 THEN 20
         ELSE IF len < 500 THEN 30
         ELSE 45

\* the ceiling test with a non-strict comparison
TimedOutInclusive(elapsed) == elapsed >= MAX_WAIT_SECONDS

\* line 73
TimedOut(elapsed) == elapsed > MAX_WAIT_SECONDS

\* the loop leaving on any status that is set (`if current_status:`)
DispatchAnyStatusBreaks(status) ==
    IF status # NoneValue THEN "break" ELSE "raise"

\* the loop comparing against a misspelt terminal status
DispatchMisspelt(status) ==
    IF status = "completed" THEN "break"
    ELSE IF status = "processing" THEN "sleep"
    ELSE "raise"

\* the loop polling on after a status it does not recognise
DispatchRetriesUnknown(status) ==
    IF status = "complete" THEN "break" ELSE "sleep"

\* lines 83-90: what the loop does with a parsed status
Dispatch(status) ==
    IF status = "complete" THEN "break"
    ELSE IF status = "processing" THEN "sleep"
    ELSE "raise"

\* the except clause catching requests' Timeout only
CatchesTimeoutOnly(exc) == exc = "Timeout"

\* line 92: the except clause of the loop catches RequestException only
Catches(exc) == exc = "RequestException"

\* the timeout message formatting the measured time
TimeoutErrorElapsed(job_id, elapsed) ==
    [kind |-> "timeout", job_id |-> job_id, seconds |-> elapsed]

\* line 74
TimeoutError(job_id, elapsed) ==
    [kind |-> "timeout", job_id |-> job_id, seconds |-> MAX_WAIT_SECONDS]

\* line 90
UnknownStatusError(status, body) ==
    [kind |-> "unknown_status", status |-> status, body |-> body]

\* the script downloading right after the submission
NextStageSkipsPoll(stage) ==
    CASE stage = "submit" -> "download"
      [] stage = "poll" -> "download"
      [] stage = "download" -> "present"

\* lines 153-162: the call the script makes after each stage returns
NextStage(stage) ==
    CASE stage = "submit" -> "poll_start"
      [] stage = "poll" -> "download"
      [] stage = "download" -> "present"

(***************************************************************************)
(* Helpers of the actions                                                  *)
(***************************************************************************)
\* every message rendered twice
EmitTwice(ev, level) == [ev EXCEPT ![level] = @ + 2, !.last = level]

\* one call of status_placeholder.<level>(...)
Emit(ev, level) == [ev EXCEPT ![level] = @ + 1, !.last = level]

\* the handler reporting the exception and submitting again
RaiseRetries(e) ==
    /\ error' = e
    /\ events' = Emit(events, "error")
    /\ pc' = "submit"

\* lines 177-178: the run's only handler reports the exception and ends the run
Raise(e) ==
    /\ error' = e
    /\ events' = Emit(events, "error")
    /\ pc' = "failed"

\* a status request answers at once, after a second, or hangs past the ceiling
HangSeconds == MAX_WAIT_SECONDS + 1

CallSeconds == {0} \cup (IF slow < MaxSlowCalls THEN {1, HangSeconds} ELSE {})

\* the environment's bound on mixing the two transient kinds of response
Mixable(failures, processings) ==
    failures <= MaxMinority \/ processings <= MaxMinority

(***************************************************************************)
(* Initial state: the form is on the page, nothing has been sent           *)
(***************************************************************************)
NoSessions ==
    /\ sessions = <<>>
    /\ disk = <<>>
    /\ clock = [time |-> 0, ticks |-> 0]

Fresh ==
    /\ NoSessions
    /\ now = 0
    /\ dynamic_poll_interval = 0
    /\ start_time = 0
    /\ elapsed_time = 0
    /\ data = NoData
    /\ current_status = NoneValue
    /\ outcome = "none"
    /\ poll_exit = "none"
    /\ responses = [failure |-> 0, processing |-> 0]
    /\ events = [info |-> 0, warning |-> 0, success |-> 0, error |-> 0, last |-> "none"]
    /\ sleeps = [count |-> 0, last |-> 0]
    /\ slow = 0
    /\ error = NoError
    /\ file = Absent
    /\ chunks = 0
    /\ artifact = NoneValue

Init ==
    /\ pc = "form"
    /\ language \in FormLanguages
    /\ text_length \in TextLengths
    /\ job_data = NoData
    /\ job = NoJob
    /\ requests = [post |-> 0, status |-> 0, result |-> 0]
    /\ page = <<>>
    /\ Fresh

(***************************************************************************)
(* The script body (lines 145-178)                                         *)
(***************************************************************************)
\* lines 145-149
FormSubmit ==
    /\ pc = "form"
    /\ UNCHANGED concurrent
    /\ IF text_length = 0
       THEN /\ page' = Append(page, "error")
            /\ pc' = "rejected"
       ELSE /\ page' = page
            /\ pc' = "submit"
    /\ UNCHANGED <<language, text_length, job_data, now, job, dynamic_poll_interval, start_time,
                   elapsed_time, data, current_status, outcome, poll_exit, requests,
                   responses, events, sleeps, slow, error, file, chunks, artifact>>

\* submit_job (lines 21-41) and lines 153-154
SubmitJob ==
    /\ pc = "submit"
    /\ UNCHANGED concurrent
    /\ requests' = [requests EXCEPT !.post = @ + 1]
    /\ \/ /\ Raise([kind |-> "submit_transport"])
          /\ UNCHANGED <<job_data, job, page>>
       \/ \E b \in SubmitBodies :
            LET job_id == Get(b, "job_id")
                status_url == Get(b, "status_url")
            IN /\ job_data' = b
               /\ IF ~(Truthy(job_id) /\ Truthy(status_url))
                  THEN /\ Raise([kind |-> "submit_missing_fields"])
                       /\ UNCHANGED <<job, page>>
                  ELSE /\ job' = [job_id |-> job_id, status_url |-> status_url]
                       /\ page' = Append(page, "job_submitted")
                       /\ pc' = NextStage("submit")
                       /\ UNCHANGED <<error, events>>
    /\ UNCHANGED <<language, text_length, now, dynamic_poll_interval, start_time,
                   elapsed_time, data, current_status, outcome, poll_exit,
                   responses, sleeps, slow, file, chunks, artifact>>

(***************************************************************************)
(* poll_for_completion (lines 43-95)                                       *)
(***************************************************************************)
\* lines 50-67
PollStart ==
    /\ pc = "poll_start"
    /\ UNCHANGED concurrent
    /\ dynamic_poll_interval' = PollInterval(language, text_length)
    /\ events' = Emit(events, "info")
    /\ start_time' = now
    /\ pc' = "poll_check"
    /\ UNCHANGED <<language, text_length, job_data, now, job, elapsed_time, data, current_status,
                   outcome, poll_exit, requests, responses, sleeps, slow, error, file,
                   chunks, artifact, page>>

\* lines 69-74: the head of one loop iteration
PollCheck ==
    /\ pc = "poll_check"
    /\ UNCHANGED concurrent
    /\ elapsed_time' = now - start_time
    /\ IF TimedOut(elapsed_time')
       THEN /\ poll_exit' = "timeout"
            /\ Raise(TimeoutError(job.job_id, elapsed_time'))
       ELSE /\ pc' = "poll_get"
            /\ UNCHANGED <<poll_exit, error, events>>
    /\ UNCHANGED <<language, text_length, job_data, now, job, dynamic_poll_interval, start_time,
                   data, current_status, outcome, requests, responses, sleeps, slow,
                   file, chunks, artifact, page>>

\* the sleep given milliseconds: no whole second passes
SleepMilliseconds(d) ==
    /\ now' = now + d
    /\ sleeps' = [count |-> sleeps.count + 1, last |-> dynamic_poll_interval]
    /\ pc' = "poll_check"

\* the sleep backing off: each wait longer than the one before
SleepBackoff(d) ==
    /\ now' = now + d + dynamic_poll_interval * (sleeps.count + 1)
    /\ sleeps' = [count |-> sleeps.count + 1,
                  last |-> dynamic_poll_interval * (sleeps.count + 1)]
    /\ pc' = "poll_check"

\* lines 88, 95: time.sleep(dynamic_poll_interval) after a call that took d seconds
Sleep(d) ==
    /\ now' = now + d + dynamic_poll_interval
    /\ sleeps' = [count |-> sleeps.count + 1, last |-> dynamic_poll_interval]
    /\ pc' = "poll_check"

\* lines 92-95: the request failed with exception exc (no connection, a
\* status that is not 2xx, a body that is not JSON)
StatusFailed(d, exc) ==
    /\ IF Catches(exc)
       THEN /\ events' = Emit(events, "warning")
            /\ Sleep(d)
            /\ UNCHANGED <<poll_exit, error>>
       ELSE /\ poll_exit' = "transport"
            /\ Raise([kind |-> "status_transport"])
            /\ now' = now + d
            /\ UNCHANGED sleeps
    /\ UNCHANGED <<data, current_status>>

\* lines 80-90: the request answered with the JSON object body
StatusAnswered(d, body) ==
    /\ data' = body
    /\ current_status' = Get(body, "status")
    /\ LET branch == Dispatch(current_status')
       IN \/ /\ branch = "break"
             /\ events' = Emit(events, "success")
             /\ poll_exit' = "complete"
             /\ pc' = NextStage("poll")
             /\ now' = now + d
             /\ UNCHANGED <<sleeps, error>>
          \/ /\ branch = "sleep"
             /\ events' = Emit(events, "info")
             /\ Sleep(d)
             /\ UNCHANGED <<poll_exit, error>>
          \/ /\ branch = "raise"
             /\ poll_exit' = "unknown"
             /\ Raise(UnknownStatusError(current_status', data'))
             /\ now' = now + d
             /\ UNCHANGED sleeps

\* lines 76-95: the body of one loop iteration
PollGet ==
    /\ pc = "poll_get"
    /\ UNCHANGED concurrent
    /\ requests' = [requests EXCEPT !.status = @ + 1]
    /\ \E d \in CallSeconds :
        /\ slow' = IF d = 0 THEN slow ELSE slow + 1
        /\ \/ /\ Mixable(responses.failure + 1, responses.processing)
              /\ outcome' = "transport_failure"
              /\ responses' = [responses EXCEPT !.failure = @ + 1]
              /\ StatusFailed(d, "RequestException")
           \/ \E body \in StatusBodies :
                /\ Get(body, "status") = "processing"
                      => Mixable(responses.failure, responses.processing + 1)
                /\ outcome' = "ok"
                /\ responses' = IF Get(body, "status") = "processing"
                                THEN [responses EXCEPT !.processing = @ + 1]
                                ELSE responses
                /\ StatusAnswered(d, body)
    /\ UNCHANGED <<language, text_length, job_data, job, dynamic_poll_interval, start_time,
                   elapsed_time, file, chunks, artifact, page>>

(***************************************************************************)
(* download_result (lines 97-122)                                          *)
(***************************************************************************)
\* sizes of the chunks iter_content(chunk_size=8192) yields
ChunkSizes == {1, chunk_size}

\* the file opened for writing before the request is sent
DownloadOpensFirst ==
    /\ pc = "download"
    /\ UNCHANGED concurrent
    /\ requests' = [requests EXCEPT !.result = @ + 1]
    /\ \/ /\ Raise([kind |-> "disk_write"])
          /\ UNCHANGED <<file, chunks>>
       \/ /\ file' = 0
          /\ chunks' = 0
          /\ \/ Raise([kind |-> "download_transport"])
             \/ /\ pc' = "stream"
                /\ UNCHANGED <<error, events>>
    /\ UNCHANGED <<language, text_length, job_data, now, job, dynamic_poll_interval,
                   start_time, elapsed_time, data, current_status, outcome, poll_exit,
                   responses, sleeps, slow, artifact, page>>

\* lines 103-110: the streamed GET, raise_for_status and open(..., 'wb')
Download ==
    /\ pc = "download"
    /\ UNCHANGED concurrent
    /\ requests' = [requests EXCEPT !.result = @ + 1]
    /\ \/ /\ Raise([kind |-> "download_transport"])
          /\ UNCHANGED <<file, chunks>>
       \/ /\ Raise([kind |-> "disk_write"])
          /\ UNCHANGED <<file, chunks>>
       \/ /\ file' = 0
          /\ chunks' = 0
          /\ pc' = "stream"
          /\ UNCHANGED <<error, events>>
    /\ UNCHANGED <<language, text_length, job_data, now, job, dynamic_poll_interval, start_time,
                   elapsed_time, data, current_status, outcome, poll_exit,
                   responses, sleeps, slow, artifact, page>>

\* lines 111-112: one chunk arrives and is written
WriteChunk ==
    /\ pc = "stream"
    /\ UNCHANGED concurrent
    /\ chunks < MaxChunks
    /\ \E n \in ChunkSizes : file' = file + n
    /\ chunks' = chunks + 1
    /\ UNCHANGED <<pc, language, text_length, job_data, now, job, dynamic_poll_interval,
                   start_time, elapsed_time, data, current_status, outcome, poll_exit,
                   requests, responses, events, sleeps, slow, error, artifact, page>>

\* lines 111-112, 119-122: the stream breaks or the disk refuses the write
StreamFails ==
    /\ pc = "stream"
    /\ UNCHANGED concurrent
    /\ \/ Raise([kind |-> "download_transport"])
       \/ Raise([kind |-> "disk_write"])
    /\ UNCHANGED <<language, text_length, job_data, now, job, dynamic_poll_interval, start_time,
                   elapsed_time, data, current_status, outcome, poll_exit, requests,
                   responses, sleeps, slow, file, chunks, artifact, page>>

\* a size test that no file meets
EmptyFileNegative(size) == size < 0

\* line 114: os.path.getsize(output_filename) == 0
EmptyFile(size) == size = 0

\* lines 114-117: the stream ended, the file is closed and its size checked
StreamEnds ==
    /\ pc = "stream"
    /\ UNCHANGED concurrent
    /\ IF EmptyFile(file)
       THEN /\ Raise([kind |-> "empty_file"])
            /\ UNCHANGED artifact
       ELSE /\ artifact' = OutputFilename(job.job_id)
            /\ pc' = NextStage("download")
            /\ UNCHANGED <<error, events>>
    /\ UNCHANGED <<language, text_length, job_data, now, job, dynamic_poll_interval, start_time,
                   elapsed_time, data, current_status, outcome, poll_exit, requests,
                   responses, sleeps, slow, file, chunks, page>>

\* lines 164-175
Present ==
    /\ pc = "present"
    /\ UNCHANGED concurrent
    /\ page' = page \o <<"balloons", "audio", "download_button">>
    /\ pc' = "done"
    /\ UNCHANGED <<language, text_length, job_data, now, job, dynamic_poll_interval, start_time,
                   elapsed_time, data, current_status, outcome, poll_exit, requests,
                   responses, events, sleeps, slow, error, file, chunks, artifact>>

(***************************************************************************)
(* Specifications                                                          *)
(***************************************************************************)
Next ==
    \/ FormSubmit
    \/ SubmitJob
    \/ PollStart
    \/ PollCheck
    \/ PollGet
    \/ Download
    \/ WriteChunk
    \/ StreamFails
    \/ StreamEnds
    \/ Present

\* one run of the script
Spec == Init /\ [][Next]_vars

\* poll_for_completion called with the handle of a submitted job
InitPoller ==
    /\ pc = "poll_start"
    /\ language \in FormLanguages
    /\ text_length \in TextLengths \ {0}
    /\ job_data = [job_id |-> JobId, status_url |-> StatusUrl]
    /\ job = [job_id |-> JobId, status_url |-> StatusUrl]
    /\ requests = [post |-> 1, status |-> 0, result |-> 0]
    /\ page = <<"job_submitted">>
    /\ Fresh

NextPoller ==
    \/ PollStart
    \/ PollCheck
    \/ PollGet

\* the poller alone, every request returning and every sleep ending: the
\* script is single-threaded and nothing else can hold the loop up
SpecPoller == InitPoller /\ [][NextPoller]_vars /\ WF_vars(NextPoller)

\* what the working directory may hold under the job's file name when
\* download_result is called: nothing, or a file an earlier run left
PriorFiles == {Absent, 0, chunk_size}

\* download_result called after the first poll answered "complete"
InitRetriever ==
    /\ pc = "download"
    /\ language \in FormLanguages
    /\ text_length \in TextLengths \ {0}
    /\ job_data = [job_id |-> JobId, status_url |-> StatusUrl]
    /\ job = [job_id |-> JobId, status_url |-> StatusUrl]
    /\ requests = [post |-> 1, status |-> 1, result |-> 0]
    /\ page = <<"job_submitted">>
    /\ NoSessions
    /\ now = 0
    /\ dynamic_poll_interval = PollInterval(language, text_length)
    /\ start_time = 0
    /\ elapsed_time = 0
    /\ data = [status |-> "complete"]
    /\ current_status = "complete"
    /\ outcome = "ok"
    /\ poll_exit = "complete"
    /\ responses = [failure |-> 0, processing |-> 0]
    /\ events = [info |-> 1, warning |-> 0, success |-> 1, error |-> 0, last |-> "success"]
    /\ sleeps = [count |-> 0, last |-> 0]
    /\ slow = 0
    /\ error = NoError
    /\ file \in PriorFiles
    /\ chunks = 0
    /\ artifact = NoneValue

NextRetriever ==
    \/ Download
    \/ WriteChunk
    \/ StreamFails
    \/ StreamEnds
    \/ Present

\* the retriever alone, over a directory that may already hold the file
SpecRetriever == InitRetriever /\ [][NextRetriever]_vars

\* poll_for_completion called with any label and any text length
InitPolicy ==
    /\ pc = "poll_start"
    /\ language \in Languages
    /\ text_length \in 0..MaxTextLength
    /\ job_data = [job_id |-> JobId, status_url |-> StatusUrl]
    /\ job = [job_id |-> JobId, status_url |-> StatusUrl]
    /\ requests = [post |-> 1, status |-> 0, result |-> 0]
    /\ page = <<"job_submitted">>
    /\ Fresh

NextPolicy == PollStart

\* the interval policy alone
SpecPolicy == InitPolicy /\ [][NextPolicy]_vars

(***************************************************************************)
(* Properties                                                              *)
(***************************************************************************)
\* the script is past poll_for_completion: the call at line 158 returned
PollerReturned ==
    \/ pc \in {"download", "stream", "present", "done"}
    \/ pc = "failed" /\ requests.result > 0

\* the most recent status request was answered with status "complete"
CompleteSeen == outcome = "ok" /\ Get(data, "status") = "complete"

\* the exceptions poll_for_completion can be left with
PollerErrors == {"timeout", "unknown_status", "status_transport"}

\* C1: poll_for_completion returns normally only when the response to its
\* last status request was "complete": never after a "processing" response,
\* an unrecognised one, a transport failure or a timeout.
C1_ReturnsOnlyOnComplete ==
    /\ PollerReturned =>
          /\ CompleteSeen
          /\ current_status = "complete"
          /\ events.success = 1
          /\ error.kind \notin PollerErrors
    /\ PollerReturned <=> poll_exit = "complete"

\* the poller returned after both kinds of transient response
C1_Witness ==
    /\ PollerReturned
    /\ responses.failure > 0
    /\ responses.processing > 0

\* C2: after n "processing" responses followed by "complete", and no
\* transport failure, the poller has issued exactly n+1 status requests and
\* has returned without raising, whatever the interval.
C2_ProcessingThenComplete ==
    (CompleteSeen /\ responses.failure = 0) =>
        /\ requests.status = responses.processing + 1
        /\ PollerReturned
        /\ error.kind \notin PollerErrors
        /\ sleeps.count = responses.processing

\* [processing, processing, complete]: three status requests, then the return
C2_Witness ==
    /\ CompleteSeen
    /\ PollerReturned
    /\ responses = [failure |-> 0, processing |-> 2]
    /\ requests.status = 3
    /\ dynamic_poll_interval = 45

\* C3: a status other than "processing" and "complete", an absent one
\* included, ends the poller at once with the unknown-status error carrying
\* the raw value and the whole body; that response's request is the last
\* one, no sleep follows it, and no warning is emitted for it.
C3_UnknownStatusIsTerminal ==
    (outcome = "ok" /\ Get(data, "status") \notin {"processing", "complete"}) =>
        /\ pc = "failed"
        /\ poll_exit = "unknown"
        /\ error = [kind |-> "unknown_status", status |-> Get(data, "status"), body |-> data]
        /\ events.error = 1
        /\ events.warning = responses.failure
        /\ requests.status = responses.failure + responses.processing + 1
        /\ sleeps.count = responses.failure + responses.processing
        /\ requests.result = 0

\* the status field was absent, after earlier polls
C3_Witness ==
    /\ poll_exit = "unknown"
    /\ data = EmptyObject
    /\ error.status = NoneValue
    /\ responses.processing > 0
    /\ responses.failure > 0

\* C4: a transport failure of the status request never ends the poller; after
\* k failures followed by "complete", and no "processing", there are exactly
\* k warnings, k sleeps of the policy interval, k+1 status requests, and the
\* poller has returned.
C4_FailuresThenComplete ==
    /\ poll_exit # "transport"
    /\ error.kind # "status_transport"
    /\ (CompleteSeen /\ responses.processing = 0) =>
          /\ events.warning = responses.failure
          /\ sleeps.count = responses.failure
          /\ sleeps.count > 0 => sleeps.last = dynamic_poll_interval
          /\ now - start_time >= responses.failure * dynamic_poll_interval
          /\ requests.status = responses.failure + 1
          /\ PollerReturned
          /\ error.kind \notin PollerErrors

\* one failure, then "complete": one warning and a normal return
C4_Witness ==
    /\ CompleteSeen
    /\ PollerReturned
    /\ responses = [failure |-> 1, processing |-> 0]
    /\ events.warning = 1
    /\ requests.status = 2

\* C5 as stated: the timeout error carries the job id and the elapsed time,
\* and the time it reports is at least the ceiling.
C5_ReportsElapsedTime ==
    error.kind = "timeout" =>
        /\ error.job_id = job.job_id
        /\ error.seconds = elapsed_time
        /\ error.seconds >= MAX_WAIT_SECONDS

\* C5, amended: when the elapsed time measured at the head of an iteration
\* exceeds MAX_WAIT_SECONDS the poller fails with the timeout error; the error
\* carries the job id and the ceiling MAX_WAIT_SECONDS, not the measured time,
\* which is strictly greater than the figure reported.
C5_TimeoutReportsCeiling ==
    /\ elapsed_time > MAX_WAIT_SECONDS <=> poll_exit = "timeout"
    /\ poll_exit = "timeout" =>
          /\ pc = "failed"
          /\ error = [kind |-> "timeout", job_id |-> job.job_id,
                      seconds |-> MAX_WAIT_SECONDS]
          /\ error.seconds >= MAX_WAIT_SECONDS
          /\ error.seconds < elapsed_time
          /\ elapsed_time = now - start_time
          /\ ~CompleteSeen

\* a timeout measured well past the ceiling, after a request that hung
C5_Witness ==
    /\ poll_exit = "timeout"
    /\ error.seconds = MAX_WAIT_SECONDS
    /\ elapsed_time > 2 * MAX_WAIT_SECONDS
    /\ responses.processing > 0

\* C6: the ceiling test precedes the request in every iteration and is
\* strict: a status request is issued only from an iteration whose elapsed
\* time is at most MAX_WAIT_SECONDS, and an iteration that measures exactly
\* MAX_WAIT_SECONDS goes on to issue its request.
C6_CheckBeforeRequest ==
    [][ /\ requests'.status # requests.status =>
              /\ pc = "poll_get"
              /\ elapsed_time <= MAX_WAIT_SECONDS
              /\ requests'.status = requests.status + 1
        /\ (pc = "poll_check" /\ now - start_time > MAX_WAIT_SECONDS) =>
              /\ pc' = "failed"
              /\ requests' = requests
        /\ (pc = "poll_check" /\ now - start_time = MAX_WAIT_SECONDS) =>
              /\ pc' = "poll_get"
              /\ elapsed_time' = MAX_WAIT_SECONDS
        /\ pc = "poll_get" => requests'.status = requests.status + 1
      ]_vars

\* the iteration that measured exactly the ceiling has issued its request
C6_Witness ==
    /\ elapsed_time = MAX_WAIT_SECONDS
    /\ pc = "poll_check"
    /\ requests.status = MAX_WAIT_SECONDS \div dynamic_poll_interval + 1
    /\ outcome = "transport_failure"

\* the table of the interval policy; of the selectbox's labels only
\* "English (en)" indicates English
IntervalTable(lang, len) ==
    IF lang = EnglishLabel
    THEN (IF len < 500 THEN 10 ELSE 30)
    ELSE (IF len < 100 THEN 20 ELSE IF len < 500 THEN 30 ELSE 45)

\* C7: for every label and every text length the interval is the one of the
\* table: English 10s below 500 and 30s from 500; any other label 20s below
\* 100, 30s below 500, 45s from 500.  So 499 and 500 differ for every label,
\* and 99 and 100 differ for the labels other than English only.
C7_IntervalMatchesTable ==
    /\ pc = "poll_check" =>
          dynamic_poll_interval = IntervalTable(language, text_length)
    /\ \A lang \in Languages :
          /\ PollInterval(lang, 499) # PollInterval(lang, 500)
          /\ (PollInterval(lang, 99) # PollInterval(lang, 100)) <=> lang # EnglishLabel

\* the English boundary: 500 characters select 30 seconds
C7_Witness ==
    /\ pc = "poll_check"
    /\ language = EnglishLabel
    /\ text_length = 500
    /\ dynamic_poll_interval = 30

\* the stage the run is in: 1 submitter, 2 poller, 3 retriever and after,
\* 4 ended in failure or rejected
Stage ==
    CASE pc \in {"form", "submit"} -> 1
      [] pc \in {"poll_start", "poll_check", "poll_get"} -> 2
      [] pc \in {"download", "stream", "present", "done"} -> 3
      [] pc \in {"failed", "rejected"} -> 4

\* C8: Submitter, Poller, Retriever run in that order and never go back: a
\* status request needs the handle the submission returned, the result
\* request needs the poller's normal return on "complete", and each endpoint
\* is requested only in its own stage.
C8_StrictlySequential ==
    /\ [](requests.status > 0 =>
            /\ requests.post = 1
            /\ job = [job_id |-> JobId, status_url |-> StatusUrl])
    /\ [](requests.result > 0 =>
            /\ poll_exit = "complete"
            /\ CompleteSeen
            /\ requests.status > 0)
    /\ [][ /\ Stage' >= Stage
           /\ requests'.post # requests.post => Stage = 1
           /\ requests'.status # requests.status => Stage = 2
           /\ requests'.result # requests.result => Stage = 3
         ]_vars

\* a whole run: one submission, several polls, one download
C8_Witness ==
    /\ pc = "done"
    /\ requests.post = 1
    /\ requests.status > 2
    /\ requests.result = 1

SubmitErrors == {"submit_transport", "submit_missing_fields"}

DownloadErrors == {"download_transport", "disk_write", "empty_file"}

\* C9: every terminal error ends the run with exactly one failure reported
\* and nothing requested afterwards; the submission is posted once and, when
\* it fails, no status request and no result request is issued.
C9_OneFailureNoRetry ==
    /\ requests.post <= 1
    /\ events.error <= 1
    /\ pc # "failed" => error = NoError /\ events.error = 0
    /\ pc = "failed" =>
          /\ events.error = 1
          /\ events.last = "error"
          /\ error.kind \in SubmitErrors \cup DownloadErrors \cup {"timeout", "unknown_status"}
          /\ error.kind \in SubmitErrors =>
                requests = [post |-> 1, status |-> 0, result |-> 0]
          /\ error.kind \in {"timeout", "unknown_status"} =>
                requests.post = 1 /\ requests.status > 0 /\ requests.result = 0
          /\ error.kind \in DownloadErrors =>
                requests.post = 1 /\ requests.status > 0 /\ requests.result = 1
          /\ ~ENABLED Next

\* the submission answered without a status locator
C9_Witness ==
    /\ pc = "failed"
    /\ error.kind = "submit_missing_fields"
    /\ requests = [post |-> 1, status |-> 0, result |-> 0]
    /\ events.error = 1

\* most status requests one run of the poller can issue
MaxPolls == MAX_WAIT_SECONDS \div dynamic_poll_interval + 1

\* C10: the poller does not retry for ever.  Every sleep advances the clock
\* by the interval at least, so a run issues at most
\* floor(MAX_WAIT_SECONDS / interval) + 1 status requests; the iteration after
\* the last of them measures a time past the ceiling; and, every request
\* returning, a poller that has started is eventually left, by completion,
\* unknown status or timeout and in no other way.
C10_BoundedRetry ==
    /\ [](/\ poll_exit \in {"none", "complete", "unknown", "timeout"}
          /\ Stage = 2 <=> poll_exit = "none" /\ job # NoJob
          /\ dynamic_poll_interval > 0 =>
                /\ requests.status <= MaxPolls
                /\ now - start_time >= sleeps.count * dynamic_poll_interval
                /\ (pc = "poll_check" /\ requests.status = MaxPolls) =>
                      now - start_time > MAX_WAIT_SECONDS
                /\ (poll_exit = "timeout" /\ slow = 0) => requests.status = MaxPolls)
    /\ (Stage = 2) ~> (poll_exit \in {"complete", "unknown", "timeout"})

\* every status request failed, and the run ended in the timeout
C10_Witness ==
    /\ poll_exit = "timeout"
    /\ responses.processing = 0
    /\ responses.failure = MaxPolls
    /\ events.warning = MaxPolls
    /\ requests.status = MaxPolls

\* the job's state as the run's position shows it: Submitted once submit_job
\* has returned the handle, Processing inside the poll loop, Complete once
\* poll_for_completion has returned, Failed once it has raised
JobState ==
    IF PollerReturned THEN "Complete"
    ELSE IF pc = "failed" /\ error.kind \in PollerErrors THEN "Failed"
    ELSE IF pc \in {"poll_check", "poll_get"} THEN "Processing"
    ELSE IF pc = "poll_start" THEN "Submitted"
    ELSE "None"

\* C11: the job moves only Submitted -> Processing (the loop is entered),
\* Processing -> Processing (status "processing", or a network error, which
\* changes nothing), Processing -> Complete (status "complete") and
\* Processing -> Failed (the ceiling is exceeded or the status is not
\* recognised); Complete and Failed are never left.
C11_JobStateMachine ==
    [][ LET s == JobState
            t == JobState'
        IN /\ s = "None" => t \in {"None", "Submitted"}
           /\ s = "Submitted" => t = "Processing"
           /\ s = "Processing" => t \in {"Processing", "Complete", "Failed"}
           /\ s = "Complete" => t = "Complete"
           /\ s = "Failed" => t = "Failed"
           /\ pc = "poll_check" =>
                 (t = "Failed" <=> now - start_time > MAX_WAIT_SECONDS)
           /\ pc = "poll_get" =>
                 /\ outcome' = "transport_failure" => t = "Processing"
                 /\ (outcome' = "ok" /\ current_status' = "processing") => t = "Processing"
                 /\ (outcome' = "ok" /\ current_status' = "complete") => t = "Complete"
                 /\ (outcome' = "ok" /\ current_status' \notin {"processing", "complete"})
                       => t = "Failed"
      ]_vars

\* the job failed on an unrecognised status after network errors and
\* "processing" responses had left it in Processing
C11_Witness ==
    /\ JobState = "Failed"
    /\ error.kind = "unknown_status"
    /\ responses.failure > 0
    /\ responses.processing > 0

\* submit_job has been called and has returned or raised
SubmitterLeft == pc \notin {"form", "submit", "rejected"}

\* submit_job raised
SubmissionFailed == pc = "failed" /\ error.kind \in SubmitErrors

\* C12 as stated: when the parsed body holds both the job identifier and the
\* status locator, the submitter returns a handle holding those two values.
C12_PresentFieldsGiveHandle ==
    (SubmitterLeft /\ {"job_id", "status_url"} \subseteq DOMAIN job_data) =>
        /\ ~SubmissionFailed
        /\ job = [job_id |-> job_data["job_id"], status_url |-> job_data["status_url"]]

\* C12, amended: the submission fails with the submission error when the
\* transport call fails or when the job identifier or the status locator is
\* absent from the parsed body or empty in it; when both are present and not
\* empty the submitter returns a handle holding exactly those two values; in
\* every failing case no handle is returned.
C12_SubmissionOutcome ==
    SubmitterLeft =>
        /\ SubmissionFailed <=>
              \/ job_data = NoData
              \/ Get(job_data, "job_id") \in {NoneValue, ""}
              \/ Get(job_data, "status_url") \in {NoneValue, ""}
        /\ SubmissionFailed => job = NoJob /\ requests.status = 0
        /\ job_data = NoData => error.kind = "submit_transport"
        /\ (SubmissionFailed /\ job_data # NoData) => error.kind = "submit_missing_fields"
        /\ ~SubmissionFailed =>
              /\ job = [job_id |-> job_data["job_id"], status_url |-> job_data["status_url"]]
              /\ job # NoJob

\* the body held both fields, the job identifier empty: no handle
C12_Witness ==
    /\ SubmissionFailed
    /\ {"job_id", "status_url"} \subseteq DOMAIN job_data
    /\ job_data["job_id"] = ""
    /\ job = NoJob

\* C13: a download that transfers without error and writes zero bytes fails
\* with the empty-artifact error, which is not the transport download error;
\* a download that writes bytes returns the path of the file named after the
\* job id, and the file at a returned path is never empty.
C13_ArtifactNeverEmpty ==
    /\ error.kind = "empty_file" =>
          /\ pc = "failed"
          /\ file = 0
          /\ chunks = 0
          /\ artifact = NoneValue
          /\ requests.result = 1
    /\ (pc = "failed" /\ requests.result = 1 /\ file > 0) =>
          error.kind \in {"download_transport", "disk_write"}
    /\ artifact # NoneValue <=> pc \in {"present", "done"}
    /\ artifact # NoneValue =>
          /\ artifact = OutputFilename(job.job_id)
          /\ file > 0
          /\ chunks > 0
          /\ file >= chunks /\ file <= chunks * chunk_size
          /\ error = NoError

\* the server answered 2xx with an empty body
C13_Witness ==
    /\ error.kind = "empty_file"
    /\ file = 0
    /\ poll_exit = "complete"
    /\ requests.result = 1

\* C14: the interval is computed once, before the loop, and never changes;
\* every sleep of the run lasts that interval; and a status request is
\* issued after exactly as many sleeps as requests went before it, so exactly
\* one sleep lies between two consecutive requests.
C14_OneIntervalPerRun ==
    [][ /\ pc = "poll_start" =>
              dynamic_poll_interval' = IntervalTable(language, text_length)
        /\ pc # "poll_start" => dynamic_poll_interval' = dynamic_poll_interval
        /\ sleeps'.count # sleeps.count =>
              /\ sleeps'.count = sleeps.count + 1
              /\ sleeps'.last = dynamic_poll_interval
              /\ sleeps.count > 0 => sleeps'.last = sleeps.last
              /\ now' - now >= dynamic_poll_interval
              /\ requests'.status = requests.status + 1
        /\ requests'.status # requests.status => sleeps.count = requests.status
      ]_vars

\* four requests with three sleeps of 45 seconds between them
C14_Witness ==
    /\ requests.status = 4
    /\ sleeps = [count |-> 3, last |-> 45]
    /\ now - start_time >= 135
    /\ poll_exit = "complete"

\* C15: within one run of the poller the events follow the responses one for
\* one.  Each "processing" response gives one info event and then one sleep
\* (the one info event before the loop announces the interval); "complete"
\* gives the single success event, the run's last event, with no sleep and
\* no status request after it; a run that ends in timeout or unknown status
\* has emitted no success event.
C15_EventsFollowResponses ==
    /\ [](/\ dynamic_poll_interval > 0 => events.info = responses.processing + 1
          /\ events.warning = responses.failure
          /\ sleeps.count = responses.processing + responses.failure
          /\ events.success = (IF CompleteSeen THEN 1 ELSE 0)
          /\ CompleteSeen =>
                /\ poll_exit = "complete"
                /\ events.last = "success"
                /\ events.error = 0
                /\ requests.status = sleeps.count + 1
          /\ poll_exit \in {"timeout", "unknown"} =>
                /\ events.success = 0
                /\ events.last = "error")
    /\ [][ /\ responses'.processing # responses.processing =>
                 /\ events' = [events EXCEPT !.info = @ + 1, !.last = "info"]
                 /\ sleeps'.count = sleeps.count + 1
                 /\ pc' = "poll_check"
           /\ events'.success # events.success =>
                 /\ current_status' = "complete"
                 /\ events' = [events EXCEPT !.success = 1, !.last = "success"]
                 /\ sleeps' = sleeps
           /\ poll_exit = "complete" =>
                 /\ events' = events
                 /\ sleeps' = sleeps
                 /\ requests'.status = requests.status
         ]_vars

\* two "processing" responses and one failure, then "complete"
C15_Witness ==
    /\ CompleteSeen
    /\ responses = [failure |-> 1, processing |-> 2]
    /\ events = [info |-> 3, warning |-> 1, success |-> 1, error |-> 0, last |-> "success"]
    /\ sleeps.count = 3

\* C16: when the result request fails before any body is read, the
\* retriever fails with the download error and the output file is as it was,
\* neither created nor truncated: the file is opened only after the request
\* and its status check have succeeded.
C16_FailedRequestLeavesFile ==
    [][ pc = "download" =>
          /\ requests'.result = requests.result + 1
          /\ error'.kind = "download_transport" =>
                /\ pc' = "failed"
                /\ file' = file
                /\ chunks' = chunks
                /\ artifact' = NoneValue
          /\ file' # file =>
                /\ file' = 0
                /\ pc' = "stream"
                /\ error' = NoError
      ]_vars

\* the request failed and the file an earlier run left is untouched
C16_Witness ==
    /\ pc = "failed"
    /\ error.kind = "download_transport"
    /\ requests.result = 1
    /\ chunks = 0
    /\ file = chunk_size

(***************************************************************************)
(* Several script runs side by side, one per user session.  Each run has   *)
(* its own locals; the runs share the clock, the server and the working    *)
(* directory.                                                              *)
(***************************************************************************)
Sessions == {"session-1", "session-2"}

\* job ids the server hands out, and the status locator of each
SessionJobIds == {"job-1", "job-2"}

StatusUrlOf(job_id) == <<"/polyglot-tts/status/", job_id>>

\* forms the sessions submit
SessionForms == {<<EnglishLabel, 99>>, <<HindiLabel, 500>>}

\* the locals of a run whose form has been submitted (lines 145-149)
NewSession(form) ==
    [pc |-> "submit", language |-> form[1], text_length |-> form[2],
     job_id |-> NoneValue, status_url |-> NoneValue,
     dynamic_poll_interval |-> 0, start_time |-> 0, elapsed_time |-> 0,
     wake_at |-> 0, polled |-> {}, polls |-> 0, chunks |-> 0,
     artifact |-> NoneValue, error |-> "none"]

NoFile == [size |-> Absent, writers |-> {}]

InitConcurrent ==
    /\ pc = "form"
    /\ language = EnglishLabel
    /\ text_length = 0
    /\ job_data = NoData
    /\ job = NoJob
    /\ requests = [post |-> 0, status |-> 0, result |-> 0]
    /\ page = <<>>
    /\ now = 0
    /\ dynamic_poll_interval = 0
    /\ start_time = 0
    /\ elapsed_time = 0
    /\ data = NoData
    /\ current_status = NoneValue
    /\ outcome = "none"
    /\ poll_exit = "none"
    /\ responses = [failure |-> 0, processing |-> 0]
    /\ events = [info |-> 0, warning |-> 0, success |-> 0, error |-> 0, last |-> "none"]
    /\ sleeps = [count |-> 0, last |-> 0]
    /\ slow = 0
    /\ error = NoError
    /\ file = Absent
    /\ chunks = 0
    /\ artifact = NoneValue
    /\ sessions \in [Sessions -> {NewSession(form) : form \in SessionForms}]
    /\ disk = [name \in {OutputFilename(id) : id \in SessionJobIds} |-> NoFile]
    /\ clock = [time |-> 0, ticks |-> 0]

\* session i moves to the locals next; nothing else of the sessions changes
Step(i, next) == sessions' = [sessions EXCEPT ![i] = next]

\* session i is left with exception kind (lines 177-178)
SessionRaise(i, kind) ==
    Step(i, [sessions[i] EXCEPT !.pc = "failed", !.error = kind])

\* submit_job of session i (lines 21-41): the server picks the job id
SessionSubmit(i) ==
    /\ sessions[i].pc = "submit"
    /\ \/ SessionRaise(i, "submit_transport")
       \/ \E id \in SessionJobIds :
            Step(i, [sessions[i] EXCEPT !.job_id = id,
                                        !.status_url = StatusUrlOf(id),
                                        !.pc = NextStage("submit")])
    /\ UNCHANGED <<single, disk, clock>>

\* lines 50-67 of session i
SessionPollStart(i) ==
    /\ sessions[i].pc = "poll_start"
    /\ Step(i, [sessions[i] EXCEPT
                  !.dynamic_poll_interval =
                      PollInterval(sessions[i].language, sessions[i].text_length),
                  !.start_time = clock.time,
                  !.pc = "poll_check"])
    /\ UNCHANGED <<single, disk, clock>>

\* lines 69-74 of session i
SessionPollCheck(i) ==
    /\ sessions[i].pc = "poll_check"
    /\ LET elapsed == clock.time - sessions[i].start_time
       IN IF TimedOut(elapsed)
          THEN Step(i, [sessions[i] EXCEPT !.elapsed_time = elapsed,
                                           !.pc = "failed", !.error = "timeout"])
          ELSE Step(i, [sessions[i] EXCEPT !.elapsed_time = elapsed,
                                           !.pc = "poll_get"])
    /\ UNCHANGED <<single, disk, clock>>

\* lines 76-95 of session i, up to the call of time.sleep
SessionPollGet(i) ==
    /\ sessions[i].pc = "poll_get"
    /\ sessions[i].polls < MaxSessionPolls
    /\ LET asked == [sessions[i] EXCEPT !.polled = @ \cup {sessions[i].status_url},
                                        !.polls = @ + 1]
           asleep == [asked EXCEPT
                        !.pc = "sleeping",
                        !.wake_at = clock.time + sessions[i].dynamic_poll_interval]
       IN \/ /\ Catches("RequestException")
             /\ Step(i, asleep)
          \/ \E body \in StatusBodies :
               LET branch == Dispatch(Get(body, "status"))
               IN \/ branch = "break" /\ Step(i, [asked EXCEPT !.pc = NextStage("poll")])
                  \/ branch = "sleep" /\ Step(i, asleep)
                  \/ branch = "raise" /\ Step(i, [asked EXCEPT !.pc = "failed",
                                                               !.error = "unknown_status"])
    /\ UNCHANGED <<single, disk, clock>>

\* time.sleep of session i returns (lines 88, 95)
SessionWake(i) ==
    /\ sessions[i].pc = "sleeping"
    /\ clock.time >= sessions[i].wake_at
    /\ Step(i, [sessions[i] EXCEPT !.pc = "poll_check"])
    /\ UNCHANGED <<single, disk, clock>>

\* lines 103-110 of session i
SessionDownload(i) ==
    /\ sessions[i].pc = "download"
    /\ \/ /\ SessionRaise(i, "download_transport")
          /\ UNCHANGED disk
       \/ /\ SessionRaise(i, "disk_write")
          /\ UNCHANGED disk
       \/ LET name == OutputFilename(sessions[i].job_id)
          IN /\ disk' = [disk EXCEPT ![name] = [size |-> 0, writers |-> @.writers \cup {i}]]
             /\ Step(i, [sessions[i] EXCEPT !.pc = "stream", !.chunks = 0])
    /\ UNCHANGED <<single, clock>>

\* lines 111-112 of session i: one chunk is written
SessionWriteChunk(i) ==
    /\ sessions[i].pc = "stream"
    /\ sessions[i].chunks < MaxSessionChunks
    /\ LET name == OutputFilename(sessions[i].job_id)
       IN \E n \in ChunkSizes :
            disk' = [disk EXCEPT ![name] = [size |-> @.size + n,
                                            writers |-> @.writers \cup {i}]]
    /\ Step(i, [sessions[i] EXCEPT !.chunks = @ + 1])
    /\ UNCHANGED <<single, clock>>

\* lines 111-112, 119-122 of session i
SessionStreamFails(i) ==
    /\ sessions[i].pc = "stream"
    /\ \/ SessionRaise(i, "download_transport")
       \/ SessionRaise(i, "disk_write")
    /\ UNCHANGED <<single, disk, clock>>

\* lines 114-117 of session i
SessionStreamEnds(i) ==
    /\ sessions[i].pc = "stream"
    /\ LET name == OutputFilename(sessions[i].job_id)
       IN IF EmptyFile(disk[name].size)
          THEN SessionRaise(i, "empty_file")
          ELSE Step(i, [sessions[i] EXCEPT !.artifact = name, !.pc = "done"])
    /\ UNCHANGED <<single, disk, clock>>

\* seconds by which the shared clock is seen to advance
TickSeconds == {10, HangSeconds}

\* time passes
Tick ==
    /\ clock.ticks < MaxTicks
    /\ \E d \in TickSeconds :
         clock' = [time |-> clock.time + d, ticks |-> clock.ticks + 1]
    /\ UNCHANGED <<single, sessions, disk>>

NextConcurrent ==
    \/ \E i \in Sessions :
         \/ SessionSubmit(i)
         \/ SessionPollStart(i)
         \/ SessionPollCheck(i)
         \/ SessionPollGet(i)
         \/ SessionWake(i)
         \/ SessionDownload(i)
         \/ SessionWriteChunk(i)
         \/ SessionStreamFails(i)
         \/ SessionStreamEnds(i)
    \/ Tick

\* the script runs of several sessions, interleaved in every way
SpecConcurrent == InitConcurrent /\ [][NextConcurrent]_vars

\* the poll state of a run: start time, interval, elapsed time
PollState(i) ==
    <<sessions[i].start_time, sessions[i].dynamic_poll_interval, sessions[i].elapsed_time>>

\* the output file named after the job id of run i
OwnFile(i) == OutputFilename(sessions[i].job_id)

\* runs i and j hold handles with different job ids
DistinctJobs(i, j) ==
    /\ i # j
    /\ sessions[i].job_id # NoneValue
    /\ sessions[j].job_id # NoneValue
    /\ sessions[i].job_id # sessions[j].job_id

\* C17: when runs side by side hold different job ids, under every
\* interleaving the file named after a run's job id is written and truncated
\* by that run only, a run requests only the status locator of its own handle,
\* and a step that changes a run's start time, interval or elapsed time, or
\* the file named after its job id, is a step of that run: it changes no
\* other run's locals.
C17_RunsKeepApart ==
    /\ [](\A i \in Sessions :
            /\ sessions[i].polled \subseteq {sessions[i].status_url}
            /\ \A j \in Sessions :
                 DistinctJobs(i, j) => j \notin disk[OwnFile(i)].writers)
    /\ [][\A i \in Sessions : \A j \in Sessions :
            DistinctJobs(i, j) =>
              /\ PollState(i)' # PollState(i) =>
                   /\ sessions'[j] = sessions[j]
                   /\ sessions[i].pc \in {"poll_start", "poll_check"}
              /\ disk'[OwnFile(i)] # disk[OwnFile(i)] =>
                   /\ sessions'[j] = sessions[j]
                   /\ disk'[OwnFile(j)] = disk[OwnFile(j)]
                   /\ sessions[i].pc \in {"download", "stream"}
         ]_vars

C17_Witness ==
    /\ DistinctJobs("session-1", "session-2")
    /\ \A i \in Sessions :
         /\ sessions[i].pc = "done"
         /\ sessions[i].polled = {sessions[i].status_url}
         /\ sessions[i].start_time > 0
         /\ disk[OwnFile(i)] = [size |-> chunk_size, writers |-> {i}]

====
